---- MODULE Spec2Model ----
(***************************************************************************)
(* A model of AnalyticService (services/analytic_service.ts): the request  *)
(* dispatcher, the connection-health check, the availability registry kept *)
(* on the window object, and the polling generators.                        *)
(*                                                                         *)
(* Every `await` of the source is a scheduling point of the model: a call  *)
(* is cut into the synchronous segments that run between two awaits, and   *)
(* the segments of different calls interleave freely (cooperative, no      *)
(* preemption inside a segment).                                           *)
(***************************************************************************)
EXTENDS Integers, Sequences, FiniteSets, TLC

(* ------------------------------ bounds --------------------------------- *)
\* number of service calls (checkDatasourceAvailability or a plain
\* dispatcher call) made in one run
MaxCalls == 2
\* number of elements the consumer of the polling sequence asks for
MaxPolls == 2

(* ------------------------------ values --------------------------------- *)
Undefined == "undefined"
Null      == "<null>"
Empty     == ""
Url       == "http://hastic"

\* what a caller may pass to the constructor as _hasticDatasourceURL
Endpoint == {Undefined, Null, Empty, Url}

NotConstructed == "<none>"

Inst  == {"a", "b"}
Calls == 1..MaxCalls

\* enum HasticDatasourceAvailability
AVAILABLE     == "success"
NOT_AVAILABLE == "error"
\* a key the registry object does not own
Absent == "absent"

\* JavaScript property key of an endpoint (ToPropertyKey: null -> "null")
PropertyKey(e) == IF e = Null THEN "null" ELSE e
Keys == {PropertyKey(e) : e \in Endpoint \ {Undefined}}

Methods == {"GET", "POST", "PATCH", "DELETE"}

\* response bodies (response.data) the server may send
RootBodies   == {"hastic", "hasticOldVersion", "notHastic", Undefined}
PlainBodies  == {"body", Undefined}
StatusBodies == {"statusBody", Undefined}
SpansBodies  == {"withSpans", "withoutSpans", Undefined}

Sentinel404 == "{status:'404'}"

\* the id of an analytic unit, as a caller may pass it
Ids == {"unit", Undefined}

\* settled transport: a response, or a rejection with xhrStatus and status
Response(d) == [ok |-> TRUE, data |-> d, xhrStatus |-> "complete", status |-> 200]
HttpError(x, s) == [ok |-> FALSE, data |-> Undefined, xhrStatus |-> x, status |-> s]

\* a completed exchange with an error status, a timeout or abort (status -1)
\* and a transport that broke for another reason
Errors ==
  {HttpError("complete", s) : s \in {404, 500, 502, 504}}
    \cup {HttpError("timeout", -1), HttpError("error", 0)}

Outcomes(bodies) == {Response(d) : d \in bodies} \cup Errors

NoOutcome == [ok |-> FALSE, data |-> Undefined, xhrStatus |-> "none", status |-> 0]

\* how an async function settles: a returned value, or a raised error with
\* its text and the status the text carries
Returned(v)  == [threw |-> FALSE, value |-> v, error |-> "", status |-> 0]
Raised(e, s) == [threw |-> TRUE, value |-> Undefined, error |-> e, status |-> s]
NoResult     == [threw |-> FALSE, value |-> "<pending>", error |-> "", status |-> 0]

BoolStr(b) == IF b THEN "true" ELSE "false"

(* ------------------------------ state ---------------------------------- *)
VARIABLES
  hasticDatasourceURL,           \* per instance: _hasticDatasourceURL
  constructed,                   \* per instance: "no" | "ok" | "threw"
  isUp,                          \* per instance: _isUp
  hasticDatasourceStatus,        \* per instance: {testing, availability, message}
  hasticDatasourcesAvailability, \* window.hasticDatasourcesAvailability
  calls,                         \* the service calls in flight, with their position
  gen,                           \* the polling sequence and its consumer
  emitted,                       \* appEvents.emit calls of the last step
  alertLog,                      \* every _displayConnectionAlert call so far
  last                           \* what the last step was and how it settled

vars == <<hasticDatasourceURL, constructed, isUp, hasticDatasourceStatus,
          hasticDatasourcesAvailability, calls, gen, emitted, alertLog, last>>

NoMessage == [kind |-> "", status |-> 0]
Message(k, s) == [kind |-> k, status |-> s]

IdleCall == [op |-> "none", inst |-> "a", pc |-> "idle", got |-> NoResult, ret |-> FALSE]
DoneCall == [IdleCall EXCEPT !.pc = "done"]

NoGen == [pc |-> "none", inst |-> "a", kind |-> "status", id |-> Undefined,
          queue |-> <<>>, stopped |-> FALSE, requested |-> 0, fetches |-> 0,
          inflight |-> 0, waitsStarted |-> 0, waitsDone |-> 0, delivered |-> 0]

Event(name, key, message) == [name |-> name, url |-> key, message |-> message]

\* a step: its name, the instance, the verb of a request, what the transport
\* settled with, how the step's function settled and, when a check returns,
\* what its root GET had settled with
Step(name, i, m, o, r) ==
  [step |-> name, inst |-> i, method |-> m, outcome |-> o, result |-> r,
   got |-> NoResult]

Init ==
  /\ hasticDatasourceURL = [i \in Inst |-> NotConstructed]
  /\ constructed = [i \in Inst |-> "no"]
  /\ isUp = [i \in Inst |-> FALSE]
  /\ hasticDatasourceStatus =
       [i \in Inst |-> [testing |-> FALSE, availability |-> NOT_AVAILABLE, message |-> NoMessage]]
  /\ hasticDatasourcesAvailability = [k \in Keys |-> Absent]
  /\ calls = [c \in Calls |-> IdleCall]
  /\ gen = NoGen
  /\ emitted = <<>>
  /\ alertLog = <<>>
  /\ last = Step("init", "a", "", NoOutcome, NoResult)

(* --------------------------- construction ------------------------------ *)
\* a constructor without its test
ConstructorNeverThrows(e) == FALSE

\* what the constructor does with the endpoint it is given
ConstructorThrows(e) == e = Undefined

\* new AnalyticService(e, $http). The instances are constructed in order and
\* before the first call: a constructor touches nothing the calls read.
Construct(i, e) ==
  /\ constructed[i] = "no"
  /\ i = "b" => constructed["a"] # "no"
  /\ \A c \in Calls : calls[c].pc = "idle"
  /\ gen.pc = "none"
  /\ IF ConstructorThrows(e)
       THEN /\ constructed' = [constructed EXCEPT ![i] = "threw"]
            /\ UNCHANGED hasticDatasourceURL
       ELSE /\ constructed' = [constructed EXCEPT ![i] = "ok"]
            /\ hasticDatasourceURL' = [hasticDatasourceURL EXCEPT ![i] = e]
  /\ emitted' = <<>>
  /\ last' = Step("construct", i, "", NoOutcome,
                  IF ConstructorThrows(e)
                    THEN Raised("_hasticDatasourceURL is undefined", 0)
                    ELSE Returned(e))
  /\ UNCHANGED <<isUp, hasticDatasourceStatus, hasticDatasourcesAvailability,
                 calls, gen, alertLog>>

(* ------------------------------ alerts --------------------------------- *)
\* _updateHasticUrlStatus emitting its event on the first observation too
UpdateHasticUrlStatusEventOnFirst(i, status) ==
  LET k   == PropertyKey(hasticDatasourceURL[i])
      reg == hasticDatasourcesAvailability
  IN  IF reg[k] # status
        THEN [statusChanged |-> TRUE, registry |-> [reg EXCEPT ![k] = status],
              events |-> <<Event("hastic-datasource-status-changed", k, NoMessage)>>]
        ELSE [statusChanged |-> FALSE, registry |-> reg, events |-> <<>>]

\* _updateHasticUrlStatus without the comparison: every call counts as a change
UpdateHasticUrlStatusAlwaysChanged(i, status) ==
  LET k == PropertyKey(hasticDatasourceURL[i])
  IN  [statusChanged |-> TRUE,
       registry |-> [hasticDatasourcesAvailability EXCEPT ![k] = status],
       events |-> <<>>]

\* _updateHasticUrlStatus: the new registry, whether the status changed, and
\* the events it emits itself
UpdateHasticUrlStatus(i, status) ==
  LET k   == PropertyKey(hasticDatasourceURL[i])
      reg == hasticDatasourcesAvailability
  IN  IF reg[k] = Absent
        THEN [statusChanged |-> TRUE, registry |-> [reg EXCEPT ![k] = status],
              events |-> <<>>]
        ELSE IF reg[k] # status
          THEN [statusChanged |-> TRUE, registry |-> [reg EXCEPT ![k] = status],
                events |-> <<Event("hastic-datasource-status-changed", k, NoMessage)>>]
          ELSE [statusChanged |-> FALSE, registry |-> reg, events |-> <<>>]

\* the event name `alert-${status}`
AlertName(status) == IF status = AVAILABLE THEN "alert-success" ELSE "alert-error"

\* _displayConnectionAlert
DisplayConnectionAlert(i, status, message) ==
  LET k == PropertyKey(hasticDatasourceURL[i])
      u == UpdateHasticUrlStatus(i, status)
      out == IF u.statusChanged
               THEN Append(u.events, Event(AlertName(status), k, message))
               ELSE u.events
  IN  /\ hasticDatasourceStatus' =
           [hasticDatasourceStatus EXCEPT ![i].availability = status,
                                          ![i].message = message]
      /\ hasticDatasourcesAvailability' = u.registry
      /\ emitted' = out
      /\ alertLog' = Append(alertLog,
                            [inst |-> i, url |-> k, status |-> status,
                             prev |-> hasticDatasourcesAvailability[k],
                             shown |-> \E n \in DOMAIN out :
                                         out[n].name = AlertName(status)])

NoAlert ==
  /\ emitted' = <<>>
  /\ UNCHANGED <<hasticDatasourceStatus, hasticDatasourcesAvailability, alertLog>>

DisplayNoConnectionAlert(i, statusText) ==
  DisplayConnectionAlert(i, NOT_AVAILABLE, Message("noConnection", statusText))

DisplayConnectionTimeoutAlert(i, statusText) ==
  DisplayConnectionAlert(i, NOT_AVAILABLE, Message("timeout", statusText))

DisplayWrongUrlAlert(i) ==
  DisplayConnectionAlert(i, NOT_AVAILABLE, Message("wrongUrl", 0))

DisplayUnsupportedVersionAlert(i) ==
  DisplayConnectionAlert(i, NOT_AVAILABLE, Message("unsupportedVersion", 0))

DisplayConnectedAlert(i) ==
  DisplayConnectionAlert(i, AVAILABLE, Message("connected", 0))

(* ---------------------------- dispatcher ------------------------------- *)
\* the test with the xhrStatus disjunct forgotten
IsConnectivityFailureStatusOnly(error) == error.status > 500

\* the test with every error status taken for a connectivity failure
IsConnectivityFailureFrom400(error) ==
  error.xhrStatus # "complete" \/ error.status >= 400

\* the test with >= for >
IsConnectivityFailureFrom500(error) ==
  error.xhrStatus # "complete" \/ error.status >= 500

\* the test of the catch block of _analyticRequest
IsConnectivityFailure(error) ==
  error.xhrStatus # "complete" \/ error.status > 500

IsTimeoutStatus(error) == error.status = 504 \/ error.status = -1

\* `statusText` is error.status: the line that should append error.statusText
\* assigns to the global `status` instead
StatusText(error) == error.status

\* how _analyticRequest settles once the transport has settled with o
AnalyticRequestResult(o) ==
  IF o.ok THEN Returned(o.data)
  ELSE IF IsConnectivityFailure(o) THEN Raised("Fetching error", StatusText(o))
  ELSE Returned(Undefined)

\* _analyticRequest reporting the connection on its success path
AnalyticRequestSettleConnectedOnSuccess(i, o) ==
  IF o.ok
    THEN /\ isUp' = [isUp EXCEPT ![i] = TRUE]
         /\ DisplayConnectedAlert(i)
    ELSE IF IsConnectivityFailure(o)
      THEN /\ IF IsTimeoutStatus(o)
                THEN DisplayConnectionTimeoutAlert(i, StatusText(o))
                ELSE DisplayNoConnectionAlert(i, StatusText(o))
           /\ isUp' = [isUp EXCEPT ![i] = FALSE]
      ELSE /\ isUp' = [isUp EXCEPT ![i] = TRUE]
           /\ NoAlert

\* _analyticRequest with `this._isUp = true` left out of its success path
AnalyticRequestSettleKeepsIsUp(i, o) ==
  IF o.ok
    THEN /\ UNCHANGED isUp
         /\ NoAlert
    ELSE IF IsConnectivityFailure(o)
      THEN /\ IF IsTimeoutStatus(o)
                THEN DisplayConnectionTimeoutAlert(i, StatusText(o))
                ELSE DisplayNoConnectionAlert(i, StatusText(o))
           /\ isUp' = [isUp EXCEPT ![i] = FALSE]
      ELSE /\ isUp' = [isUp EXCEPT ![i] = TRUE]
           /\ NoAlert

\* what _analyticRequest does to the service once the transport has settled
AnalyticRequestSettle(i, o) ==
  IF o.ok
    THEN /\ isUp' = [isUp EXCEPT ![i] = TRUE]
         /\ NoAlert
    ELSE IF IsConnectivityFailure(o)
      THEN /\ IF IsTimeoutStatus(o)
                THEN DisplayConnectionTimeoutAlert(i, StatusText(o))
                ELSE DisplayNoConnectionAlert(i, StatusText(o))
           /\ isUp' = [isUp EXCEPT ![i] = FALSE]
      ELSE /\ isUp' = [isUp EXCEPT ![i] = TRUE]
           /\ NoAlert

\* call slots are taken in order
Free(c) ==
  /\ calls[c].pc = "idle"
  /\ \A d \in Calls : d < c => calls[d].pc # "idle"

\* get / post / patch / delete called by one of the plain operations: the
\* request is handed to $http and the call waits for it
RequestStart(c, i, m) ==
  /\ Free(c)
  /\ constructed[i] = "ok"
  /\ calls' = [calls EXCEPT ![c] = [IdleCall EXCEPT !.op = "request", !.inst = i,
                                                   !.pc = "http"]]
  /\ emitted' = <<>>
  /\ last' = Step("request", i, m, NoOutcome, NoResult)
  /\ UNCHANGED <<hasticDatasourceURL, constructed, isUp, hasticDatasourceStatus,
                 hasticDatasourcesAvailability, gen, alertLog>>

\* the transport of a plain dispatcher call settles
RequestSettle(c, o) ==
  /\ calls[c].pc = "http"
  /\ calls[c].op = "request"
  /\ AnalyticRequestSettle(calls[c].inst, o)
  /\ calls' = [calls EXCEPT ![c] = DoneCall]
  /\ last' = Step("dispatch", calls[c].inst, "", o, AnalyticRequestResult(o))
  /\ UNCHANGED <<hasticDatasourceURL, constructed, gen>>

(* ----------------------- connection health check ----------------------- *)
\* _checkDatasourceConfig without its test of null
CheckDatasourceConfigNoNull(i) ==
  ~ (hasticDatasourceURL[i] = Undefined \/ hasticDatasourceURL[i] = Empty)

\* _checkDatasourceConfig
CheckDatasourceConfig(i) ==
  ~ (hasticDatasourceURL[i] = Null \/ hasticDatasourceURL[i] = Undefined
       \/ hasticDatasourceURL[i] = Empty)

ConfigWarning(i) ==
  Event("alert-warning", PropertyKey(hasticDatasourceURL[i]), Message("missing", 0))

\* utils.isHasticServerResponse / utils.isSupportedServerVersion
IsHasticServerResponse(response) == response \in {"hastic", "hasticOldVersion"}
IsSupportedServerVersion(response) == response = "hastic"

\* checkDatasourceAvailability up to its await: testing := true, then
\* _isDatasourceAvailable up to its first await (or its early return)
CheckStart(c, i) ==
  /\ Free(c)
  /\ constructed[i] = "ok"
  /\ hasticDatasourceStatus' = [hasticDatasourceStatus EXCEPT ![i].testing = TRUE]
  /\ IF CheckDatasourceConfig(i)
       THEN /\ calls' = [calls EXCEPT ![c] = [IdleCall EXCEPT !.op = "check", !.inst = i,
                                                        !.pc = "http"]]
            /\ emitted' = <<>>
       ELSE /\ calls' = [calls EXCEPT ![c] = [IdleCall EXCEPT !.op = "check", !.inst = i,
                                                        !.pc = "resume", !.ret = FALSE]]
            /\ emitted' = <<ConfigWarning(i)>>
  /\ last' = Step("checkStart", i, "", NoOutcome, NoResult)
  /\ UNCHANGED <<hasticDatasourceURL, constructed, isUp,
                 hasticDatasourcesAvailability, gen, alertLog>>

\* the root GET of a check settles: _analyticRequest runs to its end
CheckSettle(c, o) ==
  /\ calls[c].pc = "http"
  /\ calls[c].op = "check"
  /\ AnalyticRequestSettle(calls[c].inst, o)
  /\ calls' = [calls EXCEPT ![c].pc = "probe", ![c].got = AnalyticRequestResult(o)]
  /\ last' = Step("dispatch", calls[c].inst, "", o, AnalyticRequestResult(o))
  /\ UNCHANGED <<hasticDatasourceURL, constructed, gen>>

\* the value _isDatasourceAvailable returns for what get('/') settled with
IsDatasourceAvailableResult(got) ==
  /\ ~ got.threw
  /\ IsHasticServerResponse(got.value)
  /\ IsSupportedServerVersion(got.value)

\* _isDatasourceAvailable resumes after `await this.get('/')`
IsDatasourceAvailableResume(c) ==
  LET i   == calls[c].inst
      got == calls[c].got
  IN  /\ calls[c].pc = "probe"
      /\ IF got.threw
           THEN NoAlert
           ELSE IF ~ IsHasticServerResponse(got.value)
             THEN DisplayWrongUrlAlert(i)
             ELSE IF ~ IsSupportedServerVersion(got.value)
               THEN DisplayUnsupportedVersionAlert(i)
               ELSE DisplayConnectedAlert(i)
      /\ calls' = [calls EXCEPT ![c].pc = "resume",
                                ![c].ret = IsDatasourceAvailableResult(got)]
      /\ last' = Step("probe", i, "", NoOutcome,
                      Returned(BoolStr(IsDatasourceAvailableResult(got))))
      /\ UNCHANGED <<hasticDatasourceURL, constructed, isUp, gen>>

\* checkDatasourceAvailability resumes after `await this._isDatasourceAvailable()`.
\* The step keeps, for the record, what the root GET of the call settled with.
CheckResume(c) ==
  LET i == calls[c].inst
  IN  /\ calls[c].pc = "resume"
      /\ isUp' = [isUp EXCEPT ![i] = calls[c].ret]
      /\ hasticDatasourceStatus' = [hasticDatasourceStatus EXCEPT ![i].testing = FALSE]
      /\ calls' = [calls EXCEPT ![c] = DoneCall]
      /\ emitted' = <<>>
      /\ last' = [Step("checkReturn", i, "", NoOutcome, Returned(BoolStr(calls[c].ret)))
                    EXCEPT !.got = calls[c].got]
      /\ UNCHANGED <<hasticDatasourceURL, constructed,
                     hasticDatasourcesAvailability, gen, alertLog>>

(* ------------------------- polling sequences --------------------------- *)
\* the fetch function of getStatusGenerator: `return this.get(...)` hands the
\* promise of get on without awaiting it, so the catch block around it sees no
\* rejection, and get settles a 404 with undefined anyway
StatusFetch(r) == r

\* getDetectionSpans after `await this.get('/detections/spans', payload)`
GetDetectionSpansResult(r) ==
  IF r.threw THEN r
  ELSE IF r.value = Undefined \/ r.value = "withoutSpans"
    THEN Raised("Server didn't return spans array", 0)
    ELSE Returned("spans")

FetchResult(kind, r) ==
  IF kind = "status" THEN StatusFetch(r) ELSE GetDetectionSpansResult(r)

FetchBodies(kind) == IF kind = "status" THEN StatusBodies ELSE SpansBodies

\* the generator completes: every request still queued settles with done
Complete(g) == [g EXCEPT !.pc = "done", !.queue = <<>>]

\* func(id, ...args) is called: a request goes out
InvokeFetch(g) == [g EXCEPT !.pc = "fetch", !.fetches = @ + 1, !.inflight = @ + 1]

\* the body from its start with the test of id left out
RunFromStartNoIdCheck(g) == InvokeFetch(g)

\* the body of getGenerator from its start to its first await
RunFromStart(g) == IF g.id = Undefined THEN Complete(g) ELSE InvokeFetch(g)

\* the body after a yield with the wait left out
RunFromYieldNoWait(g) == InvokeFetch(g)

\* the body of getGenerator after a yield: await timeout()
RunFromYield(g) == [g EXCEPT !.pc = "wait", !.waitsStarted = @ + 1]

\* a suspended generator takes the request at the head of its queue
ResumeNext(g) ==
  IF g.queue = <<>> THEN g
  ELSE IF Head(g.queue) = "return" THEN Complete(g)
  ELSE IF g.pc = "start" THEN RunFromStart(g)
  ELSE RunFromYield(g)

Suspended(g) == g.pc \in {"start", "yield"}

\* getStatusGenerator / getDetectionsGenerator: the generator object is
\* created, its body has not started
GetGenerator(i, kind, id) ==
  /\ gen.pc = "none"
  /\ constructed[i] = "ok"
  /\ gen' = [NoGen EXCEPT !.pc = "start", !.inst = i, !.kind = kind, !.id = id]
  /\ emitted' = <<>>
  /\ last' = Step("getGenerator", i, "", NoOutcome, NoResult)
  /\ UNCHANGED <<hasticDatasourceURL, constructed, isUp, hasticDatasourceStatus,
                 hasticDatasourcesAvailability, calls, alertLog>>

\* the consumer asks for an element: next()
GenNext ==
  /\ gen.pc # "none"
  /\ ~ gen.stopped
  /\ gen.requested < MaxPolls
  /\ LET g == [gen EXCEPT !.requested = @ + 1, !.queue = Append(@, "next")]
     IN  /\ gen' = IF gen.pc = "done" THEN [g EXCEPT !.queue = <<>>]
                   ELSE IF Suspended(gen) THEN ResumeNext(g)
                   ELSE g
         /\ last' = Step("next", gen.inst, "", NoOutcome,
                         IF gen.pc = "done" THEN Returned("{done:true}")
                         ELSE IF gen.pc = "start" /\ gen.id = Undefined
                           THEN Raised("id is undefined", 0)
                           ELSE NoResult)
  /\ emitted' = <<>>
  /\ UNCHANGED <<hasticDatasourceURL, constructed, isUp, hasticDatasourceStatus,
                 hasticDatasourcesAvailability, calls, alertLog>>

\* the consumer stops iterating: return()
GenReturn ==
  /\ gen.pc # "none"
  /\ ~ gen.stopped
  /\ LET g == [gen EXCEPT !.stopped = TRUE, !.queue = Append(@, "return")]
     IN  gen' = IF gen.pc = "done" THEN [g EXCEPT !.queue = <<>>]
                ELSE IF Suspended(gen) THEN ResumeNext(g)
                ELSE g
  /\ emitted' = <<>>
  /\ last' = Step("return", gen.inst, "", NoOutcome, NoResult)
  /\ UNCHANGED <<hasticDatasourceURL, constructed, isUp, hasticDatasourceStatus,
                 hasticDatasourcesAvailability, calls, alertLog>>

\* setTimeout fires: the loop goes round and calls func again
GenTimer ==
  /\ gen.pc = "wait"
  /\ gen' = InvokeFetch([gen EXCEPT !.waitsDone = @ + 1])
  /\ emitted' = <<>>
  /\ last' = Step("timer", gen.inst, "", NoOutcome, NoResult)
  /\ UNCHANGED <<hasticDatasourceURL, constructed, isUp, hasticDatasourceStatus,
                 hasticDatasourcesAvailability, calls, alertLog>>

\* the request of a fetch settles: _analyticRequest runs to its end, the fetch
\* function settles, and the generator yields the value or ends on the error
GenSettle(o) ==
  LET f == FetchResult(gen.kind, AnalyticRequestResult(o))
      g == [gen EXCEPT !.inflight = @ - 1]
  IN  /\ gen.pc = "fetch"
      /\ o.ok => o.data \in FetchBodies(gen.kind)
      /\ AnalyticRequestSettle(gen.inst, o)
      /\ gen' = IF f.threw
                  THEN Complete(g)
                  ELSE ResumeNext([g EXCEPT !.pc = "yield", !.delivered = @ + 1,
                                            !.queue = Tail(@)])
      /\ last' = Step("poll", gen.inst, "GET", o, f)
      /\ UNCHANGED <<hasticDatasourceURL, constructed, calls>>

(* ----------------------- operations with a contract --------------------- *)
DataOps == {"getSegments", "getDetectionSpans", "updateSegments"}

SegmentsBodies == {"withSegments", "withoutSegments", Undefined}
AddedIdsBodies == {"withAddedIds", "withoutAddedIds", Undefined}

DataBodies(op) ==
  IF op = "getSegments" THEN SegmentsBodies
  ELSE IF op = "getDetectionSpans" THEN SpansBodies
  ELSE AddedIdsBodies

DataMethod(op) == IF op = "updateSegments" THEN "PATCH" ELSE "GET"

\* reading a property of undefined
TypeErrorOfUndefined(field) ==
  Raised("TypeError: cannot read property of undefined", 0)

\* getSegments after `await this.get('/segments', payload)`: data.segments is
\* read without a test of data
GetSegmentsResult(r) ==
  IF r.threw THEN r
  ELSE IF r.value = Undefined THEN TypeErrorOfUndefined("segments")
  ELSE IF r.value = "withoutSegments"
    THEN Raised("Server didn't return segments array", 0)
    ELSE Returned("segments")

\* updateSegments after `await this.patch('/segments', payload)`: data.addedIds
\* is read without a test of data
UpdateSegmentsResult(r) ==
  IF r.threw THEN r
  ELSE IF r.value = Undefined THEN TypeErrorOfUndefined("addedIds")
  ELSE IF r.value = "withoutAddedIds"
    THEN Raised("Server didn't send addedIds", 0)
    ELSE Returned("addedIds")

DataResult(op, r) ==
  IF op = "getSegments" THEN GetSegmentsResult(r)
  ELSE IF op = "getDetectionSpans" THEN GetDetectionSpansResult(r)
  ELSE UpdateSegmentsResult(r)

\* getSegments and getDetectionSpans refuse an undefined id before any request
RefusesId(op, id) == op \in {"getSegments", "getDetectionSpans"} /\ id = Undefined

\* getSegments / getDetectionSpans / updateSegments up to the await of the
\* dispatcher call
DataStart(c, i, op, id) ==
  /\ Free(c)
  /\ constructed[i] = "ok"
  /\ calls' = [calls EXCEPT ![c] =
                 IF RefusesId(op, id) THEN DoneCall
                 ELSE [IdleCall EXCEPT !.op = op, !.inst = i, !.pc = "http"]]
  /\ emitted' = <<>>
  /\ last' = Step("dataStart", i, DataMethod(op), NoOutcome,
                  IF RefusesId(op, id) THEN Raised("id is undefined", 0) ELSE NoResult)
  /\ UNCHANGED <<hasticDatasourceURL, constructed, isUp, hasticDatasourceStatus,
                 hasticDatasourcesAvailability, gen, alertLog>>

\* the request of the operation settles: _analyticRequest runs to its end and
\* the operation reads the field it needs
DataSettle(c, o) ==
  LET op == calls[c].op
  IN  /\ calls[c].pc = "http"
      /\ op \in DataOps
      /\ o.ok => o.data \in DataBodies(op)
      /\ AnalyticRequestSettle(calls[c].inst, o)
      /\ calls' = [calls EXCEPT ![c] = DoneCall]
      /\ last' = Step(op, calls[c].inst, DataMethod(op), o,
                      DataResult(op, AnalyticRequestResult(o)))
      /\ UNCHANGED <<hasticDatasourceURL, constructed, gen>>

(* --------------------------- specification ----------------------------- *)
Next ==
  \/ \E i \in Inst, e \in Endpoint : Construct(i, e)
  \/ \E c \in Calls, i \in Inst, m \in Methods : RequestStart(c, i, m)
  \/ \E c \in Calls, o \in Outcomes(PlainBodies) : RequestSettle(c, o)
  \/ \E c \in Calls, i \in Inst : CheckStart(c, i)
  \/ \E c \in Calls, o \in Outcomes(RootBodies) : CheckSettle(c, o)
  \/ \E c \in Calls : IsDatasourceAvailableResume(c)
  \/ \E c \in Calls : CheckResume(c)

Spec == Init /\ [][Next]_vars

\* one polling sequence and its consumer, on the instances constructed
PollNext ==
  \/ \E i \in Inst, e \in Endpoint : Construct(i, e)
  \/ \E i \in Inst, kind \in {"status", "detections"}, id \in Ids : GetGenerator(i, kind, id)
  \/ GenNext
  \/ GenReturn
  \/ GenTimer
  \/ \E o \in Outcomes(StatusBodies \cup SpansBodies) : GenSettle(o)

PollSpec == Init /\ [][PollNext]_vars

\* the operations that need a field of the response, on the instances constructed
DataNext ==
  \/ \E i \in Inst, e \in Endpoint : Construct(i, e)
  \/ \E c \in Calls, i \in Inst, op \in DataOps, id \in Ids : DataStart(c, i, op, id)
  \/ \E c \in Calls, o \in Outcomes(SegmentsBodies \cup SpansBodies \cup AddedIdsBodies) :
       DataSettle(c, o)

DataSpec == Init /\ [][DataNext]_vars

(* ------------------------------ claims --------------------------------- *)
\* the registry key of the instance of the last step
LastKey == PropertyKey(hasticDatasourceURL[last.inst])

\* C1: a dispatcher call whose transport did not complete, or that failed
\* with a status above 500, leaves isUp false, records NotAvailable on the
\* instance and in the registry, and raises
ConnectivityFailureHandled ==
  (last.step = "dispatch" /\ ~ last.outcome.ok
     /\ (last.outcome.xhrStatus # "complete" \/ last.outcome.status > 500))
  => /\ ~ isUp[last.inst]
     /\ hasticDatasourceStatus[last.inst].availability = NOT_AVAILABLE
     /\ hasticDatasourcesAvailability[LastKey] = NOT_AVAILABLE
     /\ last.result.threw

ConnectivityFailureSeen ==
  /\ last.step = "dispatch"
  /\ last.outcome.xhrStatus = "timeout"
  /\ last.result.threw
  /\ ~ isUp[last.inst]
  /\ hasticDatasourcesAvailability[LastKey] = NOT_AVAILABLE

\* C2: a dispatcher call that failed with the transport complete and a status
\* of 500 or less leaves isUp true and resolves to undefined without raising
ServerErrorSuppressed ==
  (last.step = "dispatch" /\ ~ last.outcome.ok
     /\ last.outcome.xhrStatus = "complete" /\ last.outcome.status <= 500)
  => /\ isUp[last.inst]
     /\ ~ last.result.threw
     /\ last.result.value = Undefined

ServerErrorSuppressedSeen ==
  /\ last.step = "dispatch"
  /\ last.outcome.xhrStatus = "complete"
  /\ last.outcome.status = 404
  /\ isUp[last.inst]
  /\ last.result = Returned(Undefined)

\* C3, as claimed: a dispatcher call that failed with status 500 and a
\* complete transport records the generic "no connection" alert and raises
Status500Propagates ==
  (last.step = "dispatch" /\ ~ last.outcome.ok
     /\ last.outcome.xhrStatus = "complete" /\ last.outcome.status = 500)
  => /\ last.result.threw
     /\ hasticDatasourceStatus[last.inst].message.kind = "noConnection"
     /\ hasticDatasourceStatus[last.inst].availability = NOT_AVAILABLE
     /\ hasticDatasourcesAvailability[LastKey] = NOT_AVAILABLE

\* C3, amended: with a complete transport, a status above 500 other than 504
\* records the generic "no connection" alert and raises; status 500 itself
\* resolves to undefined with isUp true and emits nothing
GenericAlertAbove500 ==
  /\ (last.step = "dispatch" /\ ~ last.outcome.ok
        /\ last.outcome.xhrStatus = "complete"
        /\ last.outcome.status > 500 /\ last.outcome.status # 504)
     => /\ last.result.threw
        /\ hasticDatasourceStatus[last.inst].message.kind = "noConnection"
        /\ hasticDatasourceStatus[last.inst].availability = NOT_AVAILABLE
        /\ hasticDatasourcesAvailability[LastKey] = NOT_AVAILABLE
  /\ (last.step = "dispatch" /\ ~ last.outcome.ok
        /\ last.outcome.xhrStatus = "complete" /\ last.outcome.status = 500)
     => /\ last.result = Returned(Undefined)
        /\ isUp[last.inst]
        /\ emitted = <<>>

GenericAlertSeen ==
  /\ last.step = "dispatch"
  /\ last.outcome = HttpError("complete", 502)
  /\ last.result.threw
  /\ hasticDatasourceStatus[last.inst].message = Message("noConnection", 502)
  /\ \E n \in DOMAIN emitted : emitted[n].name = "alert-error"

\* the alert calls made so far for registry key k, in order
AlertsOf(k) == SelectSeq(alertLog, LAMBDA a : a.url = k)

\* C4: an alert call shows a notification exactly when the registry held no
\* value for the endpoint or a different one, the registry holding what the
\* previous alert call for the endpoint recorded; so two alert calls of two
\* instances on one endpoint with the same result, being all the alert calls
\* for it, show exactly one notification
AlertShownExactlyOnChange ==
  \A k \in Keys :
    LET log == AlertsOf(k)
    IN  /\ \A n \in DOMAIN log :
             /\ log[n].prev = IF n = 1 THEN Absent ELSE log[n - 1].status
             /\ log[n].shown <=> (log[n].prev = Absent \/ log[n].prev # log[n].status)
        /\ log # <<>> => hasticDatasourcesAvailability[k] = log[Len(log)].status
        /\ (Len(log) = 2 /\ log[1].inst # log[2].inst /\ log[1].status = log[2].status)
             => Cardinality({n \in DOMAIN log : log[n].shown}) = 1

TwoProbesOneAlert ==
  LET log == AlertsOf(Url)
  IN  /\ Len(log) = 2
      /\ log[1].inst # log[2].inst
      /\ log[1].status = AVAILABLE /\ log[2].status = AVAILABLE
      /\ log[1].shown /\ ~ log[2].shown
      /\ emitted = <<>>

\* C5, as claimed: when checkDatasourceAvailability returns, isUp is true
\* exactly when the registry holds Available for the instance's endpoint
CheckReconcilesIsUpWithRegistry ==
  last.step = "checkReturn"
  => (isUp[last.inst] <=> hasticDatasourcesAvailability[LastKey] = AVAILABLE)

\* C6, as claimed: checkDatasourceAvailability returns true with availability
\* Available exactly when the endpoint is configured and the root GET returned
\* a response of a supported hastic server; otherwise it returns false with
\* availability NotAvailable
CheckResultMatchesProbe ==
  last.step = "checkReturn"
  => LET good == /\ hasticDatasourceURL[last.inst] = Url
                 /\ ~ last.got.threw
                 /\ last.got.value = "hastic"
     IN  /\ ~ last.result.threw
         /\ good => /\ last.result.value = "true"
                    /\ hasticDatasourceStatus[last.inst].availability = AVAILABLE
         /\ ~ good => /\ last.result.value = "false"
                      /\ hasticDatasourceStatus[last.inst].availability = NOT_AVAILABLE

\* C7, as claimed: a checkDatasourceAvailability whose root GET ended in a
\* connectivity failure returns false with testing false, availability
\* NotAvailable and isUp false
CheckOfUnreachableEndpoint ==
  (last.step = "checkReturn" /\ last.got.threw)
  => /\ last.result = Returned("false")
     /\ ~ hasticDatasourceStatus[last.inst].testing
     /\ hasticDatasourceStatus[last.inst].availability = NOT_AVAILABLE
     /\ ~ isUp[last.inst]

\* C8, as claimed: when the status endpoint answers a fetch of a status poll
\* with 404, the element delivered is the sentinel {status:'404'}
StatusPoll404YieldsSentinel ==
  (last.step = "poll" /\ gen.kind = "status"
     /\ last.outcome = HttpError("complete", 404))
  => last.result = Returned(Sentinel404)

\* C9, as claimed: a polling sequence created with a defined id is done only
\* when the consumer stopped it
PollEndsOnlyWhenStopped ==
  (gen.pc = "done" /\ gen.id # Undefined) => gen.stopped

\* C10: the first fetch follows no wait; every later fetch follows exactly one
\* completed wait, which started after the fetch before it was delivered; at
\* most one fetch is in flight
PollPacing ==
  /\ gen.fetches = IF gen.fetches = 0 THEN 0 ELSE gen.waitsDone + 1
  /\ gen.waitsDone <= gen.waitsStarted
  /\ gen.waitsStarted <= gen.waitsDone + 1
  /\ gen.waitsStarted <= gen.delivered
  /\ gen.delivered <= gen.fetches
  /\ gen.inflight <= 1
  /\ gen.inflight = 1 => /\ gen.delivered = gen.fetches - 1
                         /\ gen.waitsStarted = gen.waitsDone
  /\ gen.pc = "wait" <=> gen.waitsStarted = gen.waitsDone + 1
  /\ gen.pc = "fetch" <=> gen.inflight = 1

SecondFetchAfterOneWait ==
  /\ gen.pc = "fetch"
  /\ gen.fetches = 2
  /\ gen.delivered = 1
  /\ gen.waitsStarted = 1
  /\ gen.waitsDone = 1

\* C11: a polling sequence with an undefined id ends on its first request,
\* which raises; no fetch is called, no request goes out, no wait starts and
\* no element is delivered
UndefinedIdNeverFetches ==
  gen.id = Undefined
  => /\ gen.fetches = 0
     /\ gen.inflight = 0
     /\ gen.waitsStarted = 0
     /\ gen.delivered = 0
     /\ gen.pc \in {"none", "start", "done"}
     /\ gen.requested >= 1 => gen.pc = "done"
     /\ (last.step = "next" /\ gen.requested = 1)
          => last.result = Raised("id is undefined", 0)

UndefinedIdRaised ==
  /\ gen.id = Undefined
  /\ gen.pc = "done"
  /\ ~ gen.stopped
  /\ last.step = "next"
  /\ last.result.threw

\* C12, as claimed: no instance has an endpoint that is undefined, null or
\* the empty string
NoInstanceWithoutEndpoint ==
  \A i \in Inst : hasticDatasourceURL[i] \notin {Undefined, Null, Empty}

\* C12, amended: the constructor raises exactly for an undefined endpoint, so
\* no instance has an undefined endpoint; null and the empty string are
\* accepted and kept as the endpoint
OnlyUndefinedEndpointRejected ==
  /\ \A i \in Inst :
       /\ hasticDatasourceURL[i] # Undefined
       /\ constructed[i] = "ok" <=> hasticDatasourceURL[i] \in {Null, Empty, Url}
  /\ last.step = "construct"
       => IF constructed[last.inst] = "threw"
            THEN last.result = Raised("_hasticDatasourceURL is undefined", 0)
            ELSE last.result = Returned(hasticDatasourceURL[last.inst])

ConstructorOutcomesSeen ==
  /\ constructed["a"] = "threw"
  /\ constructed["b"] = "ok"
  /\ hasticDatasourceURL["b"] = Null

\* the text of the data-contract error of an operation
ContractError(op) ==
  IF op = "getSegments" THEN "Server didn't return segments array"
  ELSE IF op = "getDetectionSpans" THEN "Server didn't return spans array"
  ELSE "Server didn't send addedIds"

\* C13, as claimed: when the dispatcher call of getSegments, getDetectionSpans
\* or updateSegments resolves without the field the operation needs (also
\* when it resolves to undefined), the operation raises the data-contract
\* error of that field
MissingFieldRaisesContractError ==
  (/\ last.step \in DataOps
   /\ \/ last.outcome.ok /\ last.outcome.data \notin {"withSegments", "withSpans", "withAddedIds"}
      \/ /\ ~ last.outcome.ok
         /\ last.outcome.xhrStatus = "complete"
         /\ last.outcome.status <= 500)
  => last.result = Raised(ContractError(last.step), 0)

\* the calls whose transport request is in flight
InTransport == {c \in Calls : calls[c].pc = "http"}

\* C14: a step of checkAvailability on an instance whose endpoint is null or
\* empty never puts a request in flight and leaves the registry and the
\* availability and message of the instance as they were; its first step
\* emits the configuration-missing warning and nothing else, and the call
\* returns false
UnconfiguredCheckShortCircuits ==
  [][\A i \in Inst :
       (/\ hasticDatasourceURL[i] \in {Null, Empty}
        /\ last'.inst = i
        /\ last'.step \in {"checkStart", "checkReturn"})
       => /\ InTransport' = InTransport
          /\ hasticDatasourcesAvailability' = hasticDatasourcesAvailability
          /\ hasticDatasourceStatus'[i].availability = hasticDatasourceStatus[i].availability
          /\ hasticDatasourceStatus'[i].message = hasticDatasourceStatus[i].message
          /\ alertLog' = alertLog
          /\ \A c \in Calls : calls'[c].op = "check" /\ calls'[c].inst = i
                                => calls'[c].pc = "resume" /\ ~ calls'[c].ret
          /\ last'.step = "checkStart"
               => emitted' = <<Event("alert-warning", PropertyKey(hasticDatasourceURL[i]),
                                     Message("missing", 0))>>
          /\ last'.step = "checkReturn"
               => /\ last'.result = Returned("false")
                  /\ last'.got = NoResult
                  /\ emitted' = <<>>
                  /\ ~ isUp'[i]]_vars

UnconfiguredCheckReturned ==
  /\ last.step = "checkReturn"
  /\ hasticDatasourceURL[last.inst] = Empty
  /\ last.result = Returned("false")
  /\ \A k \in Keys : hasticDatasourcesAvailability[k] = Absent

\* C15, as claimed: the registry changes only in a step of a checkAvailability
\* call (its root GET settling, or its probe resuming), never when an ordinary
\* dispatcher call settles
RegistryChangesOnlyInCheck ==
  [][hasticDatasourcesAvailability' # hasticDatasourcesAvailability
       => \/ last'.step = "probe"
          \/ \E c \in Calls : /\ calls[c].op = "check"
                              /\ calls[c].pc = "http"
                              /\ calls'[c].pc = "probe"]_vars

\* C15, amended: the registry changes only through an alert call, and only
\* the entry of the calling instance's endpoint: in a dispatcher call (of any
\* operation) that ends in a connectivity failure, which records NotAvailable,
\* or in the probe of checkAvailability; a dispatcher call that succeeds or
\* whose error is suppressed leaves the registry as it was
RegistryChangesOnlyThroughAlerts ==
  [][hasticDatasourcesAvailability' # hasticDatasourcesAvailability
       => LET k == PropertyKey(hasticDatasourceURL[last'.inst])
          IN  /\ last'.step \in {"dispatch", "probe"}
              /\ \A j \in Keys \ {k} :
                   hasticDatasourcesAvailability'[j] = hasticDatasourcesAvailability[j]
              /\ Len(alertLog') = Len(alertLog) + 1
              /\ last'.step = "dispatch"
                   => /\ ~ last'.outcome.ok
                      /\ \/ last'.outcome.xhrStatus # "complete"
                         \/ last'.outcome.status > 500
                      /\ last'.result.threw
                      /\ hasticDatasourcesAvailability'[k] = NOT_AVAILABLE
              /\ last'.step = "probe"
                   => (hasticDatasourcesAvailability'[k] = AVAILABLE
                         <=> last'.result = Returned("true"))]_vars

\* an ordinary request, with no check ever started, has created the entry
PlainRequestCreatedEntry ==
  /\ last.step = "dispatch"
  /\ last.result.threw
  /\ \A c \in Calls : calls[c].pc \in {"idle", "done"}
  /\ \A i \in Inst : ~ hasticDatasourceStatus[i].testing
  /\ Len(alertLog) = 1
  /\ alertLog[1].prev = Absent
  /\ hasticDatasourcesAvailability[PropertyKey(hasticDatasourceURL[last.inst])] = NOT_AVAILABLE

\* the checkAvailability calls of an instance that have started and not returned
ChecksInFlight(i) ==
  {c \in Calls : /\ calls[c].op = "check"
                 /\ calls[c].inst = i
                 /\ calls[c].pc \in {"http", "probe", "resume"}}

\* C16, as claimed: the testing flag of an instance is true exactly while at
\* least one checkAvailability call on it is in flight
TestingIffCheckInFlight ==
  \A i \in Inst : hasticDatasourceStatus[i].testing <=> ChecksInFlight(i) # {}

\* C17: a dispatcher call that ends on the success path sets isUp of its
\* instance, returns the body, and changes nothing else (status records,
\* registry, alerts); and the availability of an instance, like the registry
\* entry of an endpoint, goes from NotAvailable to Available only when a probe
\* of checkAvailability on that instance (that endpoint) resumes with true
SuccessPathFrame ==
  [][/\ (last'.step = "dispatch" /\ last'.outcome.ok)
          => /\ isUp' = [isUp EXCEPT ![last'.inst] = TRUE]
             /\ last'.result = Returned(last'.outcome.data)
             /\ hasticDatasourceStatus' = hasticDatasourceStatus
             /\ hasticDatasourcesAvailability' = hasticDatasourcesAvailability
             /\ emitted' = <<>>
             /\ alertLog' = alertLog
     /\ \A i \in Inst :
          (/\ hasticDatasourceStatus[i].availability = NOT_AVAILABLE
           /\ hasticDatasourceStatus'[i].availability = AVAILABLE)
          => last'.step = "probe" /\ last'.inst = i /\ last'.result = Returned("true")
     /\ \A k \in Keys :
          (/\ hasticDatasourcesAvailability[k] = NOT_AVAILABLE
           /\ hasticDatasourcesAvailability'[k] = AVAILABLE)
          => /\ last'.step = "probe"
             /\ PropertyKey(hasticDatasourceURL[last'.inst]) = k
             /\ last'.result = Returned("true")]_vars

\* a request succeeds on an instance whose failure had recorded NotAvailable
SuccessAfterRecordedFailure ==
  /\ last.step = "dispatch"
  /\ last.outcome.ok
  /\ isUp[last.inst]
  /\ hasticDatasourceStatus[last.inst].availability = NOT_AVAILABLE
  /\ hasticDatasourceStatus[last.inst].message.kind \in {"noConnection", "timeout"}
  /\ hasticDatasourcesAvailability[PropertyKey(hasticDatasourceURL[last.inst])] = NOT_AVAILABLE

\* C18, as claimed: the sequence never makes more fetches than the consumer
\* has requested elements, and once the consumer has stopped iterating no
\* fetch is invoked, no wait is started, and no request of the sequence
\* settles into a flag update or an alert
StoppedPollDoesNothing ==
  [][/\ gen'.fetches <= gen'.requested
     /\ gen.stopped
          => /\ gen'.fetches = gen.fetches
             /\ gen'.waitsStarted = gen.waitsStarted
             /\ last'.step # "poll"
             /\ isUp' = isUp
             /\ hasticDatasourceStatus' = hasticDatasourceStatus
             /\ hasticDatasourcesAvailability' = hasticDatasourcesAvailability
             /\ emitted' = <<>>]_vars

\* C19: in every step and for every endpoint, the status-changed event of the
\* endpoint is emitted exactly when the step changes an existing registry
\* entry of it to another value; it is then followed by the alert of the new
\* value and by nothing else; a step that creates the entry emits the alert
\* alone
StatusChangedEventExactlyOnChange ==
  [][\A k \in Keys :
       LET reg == hasticDatasourcesAvailability
           ev  == Event("hastic-datasource-status-changed", k, NoMessage)
           has == \E n \in DOMAIN emitted' : emitted'[n] = ev
       IN  /\ has <=> (reg[k] # Absent /\ reg'[k] # reg[k])
           /\ has => /\ Len(emitted') = 2
                     /\ emitted'[1] = ev
                     /\ emitted'[2].name = AlertName(reg'[k])
                     /\ emitted'[2].url = k
           /\ (reg[k] = Absent /\ reg'[k] # Absent)
                => /\ Len(emitted') = 1
                   /\ emitted'[1].name = AlertName(reg'[k])
                   /\ emitted'[1].url = k]_vars

StatusChangedEventSeen ==
  /\ Len(emitted) = 2
  /\ emitted[1].name = "hastic-datasource-status-changed"
  /\ emitted[2].name = "alert-success"
  /\ Len(alertLog) >= 2
  /\ alertLog[1].prev = Absent
  /\ alertLog[1].shown

====
